---- MODULE Spec2Model ----
(***************************************************************************)
(* AISearchViewerLite: the tabular view engine of XlsxSearchViewer.        *)
(*                                                                         *)
(* A Python string is a sequence of one-character strings, so that         *)
(* lower(), strip(), join(), the substring test and the code-point         *)
(* ordering used by list.sort can be computed.  Python indices are         *)
(* 0-based: the Python element r[k] is the TLA+ element r[k + 1].          *)
(***************************************************************************)
EXTENDS Integers, Sequences, FiniteSets, TLC

(***************************************************************************)
(* Python str primitives                                                   *)
(***************************************************************************)
Digits == <<"0", "1", "2", "3", "4", "5", "6", "7", "8", "9">>

Letters == <<"A", "B", "C", "D", "E", "F", "G", "H", "I", "J", "K", "L", "M",
             "N", "O", "P", "Q", "R", "S", "T", "U", "V", "W", "X", "Y", "Z">>

IsDigit(c) == \E d \in 1..Len(Digits) : Digits[d] = c

DigitVal(c) == (CHOOSE d \in 1..Len(Digits) : Digits[d] = c) - 1

\* ord(c) for the characters that occur in cells and queries
Ord(c) ==
    CASE c = "\t" -> 9
      [] c = " "  -> 32
      [] IsDigit(c) -> 48 + DigitVal(c)
      [] c = "A"  -> 65
      [] c = "B"  -> 66
      [] c = "a"  -> 97
      [] c = "b"  -> 98

\* str.lower(), one character
LowerChar(c) ==
    CASE c = "A" -> "a"
      [] c = "B" -> "b"
      [] OTHER   -> c

\* str.lower()
Lower(s) == [i \in 1..Len(s) |-> LowerChar(s[i])]

\* the full-width space U+3000, one character
FullWidthSpace == "U+3000"

\* str.isspace of one character
IsSpace(c) == c \in {" ", "\t", "\r", "\n", FullWidthSpace}

RECURSIVE LStrip(_)
LStrip(s) ==
    IF s # <<>> /\ IsSpace(Head(s)) THEN LStrip(Tail(s)) ELSE s

RECURSIVE RStrip(_)
RStrip(s) ==
    IF s # <<>> /\ IsSpace(s[Len(s)]) THEN RStrip(SubSeq(s, 1, Len(s) - 1)) ELSE s

\* str.strip()
Strip(s) == RStrip(LStrip(s))

\* "\t".join(r)
RECURSIVE Join(_)
Join(r) ==
    IF r = <<>> THEN <<>>
    ELSE IF Len(r) = 1 THEN r[1]
    ELSE r[1] \o <<"\t">> \o Join(Tail(r))

\* q in s
IsSubstring(q, s) ==
    \E i \in 0..(Len(s) - Len(q)) : SubSeq(s, i + 1, i + Len(q)) = q

\* a < b on str: code-point lexicographic order
RECURSIVE StrLess(_, _)
StrLess(a, b) ==
    IF b = <<>> THEN FALSE
    ELSE IF a = <<>> THEN TRUE
    ELSE IF Ord(Head(a)) # Ord(Head(b)) THEN Ord(Head(a)) < Ord(Head(b))
    ELSE StrLess(Tail(a), Tail(b))

\* str(i) for i >= 0
RECURSIVE IntToStr(_)
IntToStr(n) ==
    IF n < 10 THEN <<Digits[n + 1]>>
    ELSE IntToStr(n \div 10) \o <<Digits[(n % 10) + 1]>>

\* int(s) succeeds (for the decimal strings the row-number column holds)
IntParses(s) == s # <<>> /\ \A i \in 1..Len(s) : IsDigit(s[i])

RECURSIVE IntOfStr(_)
IntOfStr(s) ==
    IF s = <<>> THEN 0
    ELSE 10 * IntOfStr(SubSeq(s, 1, Len(s) - 1)) + DigitVal(s[Len(s)])

\* openpyxl.utils.get_column_letter(i), i >= 1
RECURSIVE ColumnLetter(_)
ColumnLetter(i) ==
    IF i = 0 THEN <<>>
    ELSE LET rem == IF i % 26 = 0 THEN 26 ELSE i % 26
             q   == IF i % 26 = 0 THEN (i \div 26) - 1 ELSE i \div 26
         IN  ColumnLetter(q) \o <<Letters[rem]>>

Reverse(s) == [i \in 1..Len(s) |-> s[Len(s) + 1 - i]]

(***************************************************************************)
(* Workbook reader values                                                  *)
(***************************************************************************)
\* cell.value: None or a text
None == [none |-> TRUE, s |-> <<>>]

Text(s) == [none |-> FALSE, s |-> s]

safe_str(v) == IF v.none THEN <<>> ELSE v.s


\* a worksheet: ws.max_column (0 for None, a sheet that records no dimension)
\* and the cells the file stores, row by row up to each row's last stored cell
Sheet(max_col, cells) == [max_col |-> max_col, cells |-> cells]

\* ws.iter_rows(min_row=1, max_row=max_row, max_col=max_col): with a max_col
\* every row is filled with empty cells up to max_col cells and cut there;
\* with max_col 0 the worksheet falls back to its own max_column, which is
\* None, and each row comes as long as the file stores it
iter_rows(ws, max_col) ==
    IF max_col > 0
    THEN [i \in 1..Len(ws.cells) |->
             [j \in 1..max_col |->
                 IF j <= Len(ws.cells[i]) THEN ws.cells[i][j] ELSE None]]
    ELSE ws.cells

\* 3 rows, columns A and B used, column C empty in every row; A holds
\* "a", "B", "A" (equal sort keys for rows 1 and 3), B holds "b", None, "1"
MainSheet ==
    Sheet(3, << <<Text(<<"a">>), Text(<<"b">>), None>>,
                <<Text(<<"B">>), None, None>>,
                <<Text(<<"A">>), Text(<<"1">>), None>> >>)

\* column A empty in every row, B used, C empty
GapSheet ==
    Sheet(3, << <<None, Text(<<"a">>), None>>,
                <<None, Text(<<"A">>), None>> >>)

\* the file stores rows of differing length
RaggedSheet ==
    Sheet(2, << <<Text(<<"b">>)>>,
                <<Text(<<"a">>), Text(<<"a">>)>> >>)

\* 2 rows, 2 columns
PairSheet ==
    Sheet(2, << <<Text(<<"B">>), Text(<<"a">>)>>,
                <<Text(<<"a">>), None>> >>)

\* a sheet with no value: one row holding one empty cell
BlankSheet == Sheet(1, << <<None>> >>)

\* one row: an empty cell, a cell of one space, a cell whose text has
\* spaces around and inside
WordsSheet ==
    Sheet(3, << <<None, Text(<<" ">>), Text(<<" ", "a", " ", " ", "B">>)>> >>)

\* one column
OneSheet == Sheet(1, << <<Text(<<"a">>)>> >>)

\* two rows, one column
TwoSheet == Sheet(1, << <<Text(<<"B">>)>>, <<Text(<<"a">>)>> >>)

NoWb == "None"

\* openpyxl.load_workbook(fp): the workbooks the reader can return, by path
Workbooks ==
    [fp \in {"book1.xlsx", "book2.xlsx", "book3.xlsx", "book4.xlsx"} |->
        IF fp = "book4.xlsx"
        THEN [sheetnames |-> <<"Two">>, sheets |-> [n \in {"Two"} |-> TwoSheet]]
        ELSE IF fp = "book3.xlsx"
        THEN [sheetnames |-> <<"Words", "One">>,
              sheets     |-> [n \in {"Words", "One"} |->
                                 IF n = "Words" THEN WordsSheet ELSE OneSheet]]
        ELSE IF fp = "book1.xlsx"
        THEN [sheetnames |-> <<"Main", "Gap", "Ragged">>,
              sheets     |-> [n \in {"Main", "Gap", "Ragged"} |->
                                 CASE n = "Main" -> MainSheet
                                   [] n = "Gap" -> GapSheet
                                   [] n = "Ragged" -> RaggedSheet]]
        ELSE [sheetnames |-> <<"Pair", "Blank">>,
              sheets     |-> [n \in {"Pair", "Blank"} |->
                                 IF n = "Pair" THEN PairSheet ELSE BlankSheet]]]

AllBooks == {"book1.xlsx", "book2.xlsx"}

SearchBooks == {"book3.xlsx"}

SearchQueries == {<<>>, <<"B">>}

RerenderBooks == {"book4.xlsx"}

RerenderQueries == {<<>>, <<"a">>}

SmallBooks == {"book2.xlsx"}

\* the longest filter text typed, in characters
MaxQueryLen == 2

QueryChars == {"a", "B", " "}

RECURSIVE StringsUpTo(_)
StringsUpTo(n) ==
    IF n = 0 THEN {<<>>}
    ELSE LET shorter == StringsUpTo(n - 1)
         IN  shorter \cup {Append(s, c) : s \in shorter, c \in QueryChars}

\* the filter texts typed: every short text, a row number, and one pasted
\* with a tab
AllQueries == StringsUpTo(MaxQueryLen) \cup {<<"1">>, <<"a", "\t", "b">>}

SmallQueries == {<<>>, <<"a">>, <<"1">>}

\* the tallest viewport, in rows
MaxViewRows == 2

(***************************************************************************)
(* State                                                                   *)
(***************************************************************************)
VARIABLES
    wb,            \* self.wb: NoWb or the path of the open workbook
    file_path,     \* self.file_path
    sheet_names,   \* self.sheet_names
    sheet_var,     \* self.sheet_var
    headers,       \* self.headers
    rows_all,      \* self.rows_all
    rows_view,     \* self.rows_view
    filter_var,    \* self.filter_var
    sort_state,    \* self._sort_state: col_index -> asc
    rc_col_index,  \* self._rc_col_index, NoCol for None
    tree_items,    \* the values of the items of self.tree, top to bottom
    tree_sel,      \* self.tree.selection(): 0 for none, else the item's position
    yview,         \* number of items scrolled off above the viewport
    view_rows,     \* number of items the viewport shows
    hl_enabled,    \* self._hl_enabled (and self._hl_win is not None)
    hl_visible,    \* the overlay window is shown (deiconify) or withdrawn
    hl_geom,       \* the overlay window's geometry
    view_aliased,  \* self.rows_view is self.rows_all, the same list object
    clipboard,     \* the clipboard's text, NoText when the program never set it
    browser,       \* the URL webbrowser.open got last, NoUrl for none
    engine_var,    \* self.engine_var, the engine of the Enter search
    arg,           \* the input of the function under check
    result,        \* its output
    last_op,       \* history: the handler that ran last
    last_sort,     \* history: column and direction of the last sort since the load
    view_before,   \* history: rows_view as the last sort click found it
    clicks         \* history: sort clicks per column since the sheet load

vars == <<wb, file_path, sheet_names, sheet_var, headers, rows_all, rows_view,
          filter_var, sort_state, rc_col_index, tree_items, tree_sel, yview,
          view_rows, hl_enabled, hl_visible, hl_geom, view_aliased, clipboard,
          browser, engine_var, arg, result, last_op, last_sort, view_before, clicks>>

workbook_vars == <<wb, file_path, sheet_names, sheet_var>>

grid_vars == <<headers, rows_all, rows_view, filter_var, sort_state>>

tree_vars == <<tree_items, tree_sel, yview>>

hl_vars == <<hl_visible, hl_geom>>

host_vars == <<clipboard, browser, engine_var>>

fn_vars == <<arg, result>>

\* the clipboard was never set
NoText == <<"<none>">>

\* the browser was never opened
NoUrl == <<"<none>">>

\* self._rc_col_index is None
NoCol == -1

\* the click counter stops counting at MaxClicks and keeps its parity
MaxClicks == 2

EmptyDict == [c \in {} |-> TRUE]

NoGeom == [x |-> 0, y |-> 0]

\* no sort since the load
NoSort == [col |-> NoCol, asc |-> TRUE]

Min(a, b) == IF a < b THEN a ELSE b


(***************************************************************************)
(* load_sheet: values, trailing-column trim, headers, row numbers          *)
(***************************************************************************)
\* values.append([safe_str(cell.value) for cell in row])
SheetValues(ws) ==
    LET rows == iter_rows(ws, ws.max_col)
    IN  [i \in 1..Len(rows) |->
            [j \in 1..Len(rows[i]) |-> safe_str(rows[i][j])]]

col_empty(values, ci) ==
    \A i \in 1..Len(values) : ~(ci < Len(values[i]) /\ values[i][ci + 1] # <<>>)

\* while last_col > 0 and col_empty(last_col - 1): last_col -= 1
RECURSIVE TrimLastCol(_, _)
TrimLastCol(values, last_col) ==
    IF last_col > 0 /\ col_empty(values, last_col - 1)
    THEN TrimLastCol(values, last_col - 1)
    ELSE last_col

\* mutant: every row is cut after its own last non-empty value
TrimValues_PerRow(values, last_col) ==
    [i \in 1..Len(values) |->
        SubSeq(values[i], 1,
               TrimLastCol(<<values[i]>>, Min(last_col, Len(values[i]))))]

\* [r[:last_col] for r in values]
TrimValues(values, last_col) ==
    [i \in 1..Len(values) |-> SubSeq(values[i], 1, Min(last_col, Len(values[i])))]

\* ["#"] + col_letters
MakeHeaders(last_col) ==
    << <<"#">> >> \o [i \in 1..last_col |-> ColumnLetter(i)]

\* mutant: enumerate without start=1
NumberRows_FromZero(values) ==
    [i \in 1..Len(values) |-> <<IntToStr(i - 1)>> \o values[i]]

\* [[str(i)] + r for i, r in enumerate(values, start=1)]
NumberRows(values) ==
    [i \in 1..Len(values) |-> <<IntToStr(i)>> \o values[i]]

LoadedLastCol(ws) == TrimLastCol(SheetValues(ws), ws.max_col)

LoadedRows(ws) == NumberRows(TrimValues(SheetValues(ws), LoadedLastCol(ws)))

(***************************************************************************)
(* apply_filter                                                            *)
(***************************************************************************)
\* mutant: the row is not lower-cased
RowMatches_CaseSensitive(q, r) == IsSubstring(q, Join(r))

\* q in "\t".join(r).lower()
RowMatches(q, r) == IsSubstring(q, Lower(Join(r)))

\* mutant: the lower-cased copies of the rows are kept
FilterRows_KeepLowered(all, text) ==
    LET q == Lower(Strip(text))
        Keep(r) == RowMatches(q, r)
        kept == IF q = <<>> THEN all ELSE SelectSeq(all, Keep)
    IN  [i \in 1..Len(kept) |-> [j \in 1..Len(kept[i]) |-> Lower(kept[i][j])]]

\* mutant: the text is not stripped
FilterRows_NoStrip(all, text) ==
    LET q == Lower(text)
        Keep(r) == RowMatches(q, r)
    IN  IF q = <<>> THEN all ELSE SelectSeq(all, Keep)

FilterRows(all, text) ==
    LET q == Lower(Strip(text))
        Keep(r) == RowMatches(q, r)
    IN  IF q = <<>> THEN all ELSE SelectSeq(all, Keep)

(***************************************************************************)
(* sort_by_column                                                          *)
(***************************************************************************)
\* key_func for column 0: int(r[0]), 0 when it raises
IntKey(r) == IF Len(r) >= 1 /\ IntParses(r[1]) THEN IntOfStr(r[1]) ELSE 0

\* key_func for the other columns: (r[col_index] or "").lower(), "" when it raises
StrKey(r, col_index) ==
    IF col_index < Len(r) THEN Lower(r[col_index + 1]) ELSE <<>>

KeyLess(col_index, r1, r2) ==
    IF col_index = 0 THEN IntKey(r1) < IntKey(r2)
    ELSE StrLess(StrKey(r1, col_index), StrKey(r2, col_index))

KeyEqual(col_index, r1, r2) ==
    ~KeyLess(col_index, r1, r2) /\ ~KeyLess(col_index, r2, r1)

\* x goes before the first element whose key is greater than x's
RECURSIVE InsertSorted(_, _, _)
InsertSorted(sorted, x, col_index) ==
    IF sorted = <<>> THEN <<x>>
    ELSE IF KeyLess(col_index, x, Head(sorted)) THEN <<x>> \o sorted
    ELSE <<Head(sorted)>> \o InsertSorted(Tail(sorted), x, col_index)

\* a stable ascending sort by key_func
RECURSIVE StableSort(_, _)
StableSort(rows, col_index) ==
    IF rows = <<>> THEN <<>>
    ELSE InsertSorted(StableSort(SubSeq(rows, 1, Len(rows) - 1), col_index),
                      rows[Len(rows)], col_index)

\* mutant: reverse is ignored
ListSort_IgnoreReverse(rows, col_index, reverse) == StableSort(rows, col_index)

\* mutant: the ascending result is reversed, equal keys included
ListSort_ReverseAfter(rows, col_index, reverse) ==
    IF reverse THEN Reverse(StableSort(rows, col_index))
    ELSE StableSort(rows, col_index)

\* list.sort(key=key_func, reverse=reverse): with reverse the list is
\* reversed, sorted ascending and reversed again, which keeps equal keys
\* in their original order
ListSort(rows, col_index, reverse) ==
    IF reverse THEN Reverse(StableSort(Reverse(rows), col_index))
    ELSE StableSort(rows, col_index)

\* mutant: the remembered direction is never read
SortStateGet_AlwaysDefault(state, col_index) == TRUE

\* self._sort_state.get(col_index, True)
SortStateGet(state, col_index) ==
    IF col_index \in DOMAIN state THEN state[col_index] ELSE TRUE

\* mutant: the dictionary is replaced, the other columns forgotten
DictSet_Replace(state, col_index, value) == [c \in {col_index} |-> value]

\* self._sort_state[col_index] = value
DictSet(state, col_index, value) ==
    [c \in (DOMAIN state) \cup {col_index} |->
        IF c = col_index THEN value ELSE state[c]]

\* the click counter of the history: exact up to MaxClicks, then parity only
CountClick(n) == IF n < MaxClicks THEN n + 1 ELSE n - 1

\* sort clicks on column c in the counter dictionary d
ClicksIn(d, c) == IF c \in DOMAIN d THEN d[c] ELSE 0

\* sort clicks on column c since the load
ClicksOn(c) == ClicksIn(clicks, c)

\* last_op after a sort click on a non-empty view: "sort_again" when the
\* event before it was a sort click on the same column
SortOps == {"sort", "sort_again"}


(***************************************************************************)
(* The grid widget and the highlight overlay                               *)
(***************************************************************************)
\* self.tree.bbox(item, col) for the item at position sel and col "#(rc+1)":
\* raises for a column the tree does not have, is empty for an item outside
\* the viewport, else the cell's box
TreeBBox(sel, rc, ncols, yv, vr) ==
    IF rc + 1 > ncols THEN [kind |-> "error", x |-> 0, y |-> 0]
    ELSE IF sel <= yv \/ sel > yv + vr THEN [kind |-> "none", x |-> 0, y |-> 0]
    ELSE [kind |-> "box", x |-> rc + 1, y |-> sel - yv]

\* draw_cell_highlight, run with the selection sel, column reference rc and
\* the tree of ncols columns scrolled to yv in a viewport of vr rows
draw_cell_highlight(sel, rc, ncols, yv, vr) ==
    IF ~hl_enabled THEN UNCHANGED hl_vars
    ELSE IF sel = 0 \/ rc = NoCol
    THEN hl_visible' = FALSE /\ UNCHANGED hl_geom
    ELSE LET bbox == TreeBBox(sel, rc, ncols, yv, vr)
         IN  CASE bbox.kind = "error" -> UNCHANGED hl_vars
               [] bbox.kind = "none"  -> hl_visible' = FALSE /\ UNCHANGED hl_geom
               [] bbox.kind = "box"   ->
                     /\ hl_visible' = TRUE
                     /\ hl_geom' = [x |-> bbox.x, y |-> bbox.y]

\* hide_cell_highlight
hide_cell_highlight == hl_visible' = FALSE /\ UNCHANGED hl_geom

\* mutant: the selected position stays selected when the new view has it
render_table_KeepSelection(rows) ==
    /\ tree_items' = rows
    /\ tree_sel' = IF tree_sel <= Len(rows) THEN tree_sel ELSE 0
    /\ yview' = 0

\* _render_table for the view rows: every item is deleted, which empties the
\* selection and scrolls to the top, and one item per view row is inserted
render_table(rows) ==
    /\ tree_items' = rows
    /\ tree_sel' = 0
    /\ yview' = 0

(***************************************************************************)
(* Handlers                                                                *)
(***************************************************************************)
\* __init__: the session before any file is opened
InitSession ==
    /\ wb = NoWb
    /\ file_path = <<>>
    /\ sheet_names = <<>>
    /\ sheet_var = ""
    /\ headers = <<>>
    /\ rows_all = <<>>
    /\ rows_view = <<>>
    /\ filter_var = <<>>
    /\ sort_state = EmptyDict
    /\ rc_col_index = NoCol
    /\ tree_items = <<>>
    /\ tree_sel = 0
    /\ yview = 0
    /\ view_rows = MaxViewRows
    /\ hl_enabled \in BOOLEAN
    /\ hl_visible = FALSE
    /\ hl_geom = NoGeom
    /\ view_aliased = FALSE
    /\ clipboard = NoText
    /\ browser = NoUrl
    /\ engine_var = "Google"
    /\ last_sort = NoSort
    /\ view_before = <<>>
    /\ clicks = EmptyDict

Init ==
    /\ InitSession
    /\ arg = <<>>
    /\ result = <<>>
    /\ last_op = "init"

\* mutant: rows_view = rows_all, without the slice
Assignment_SameList == TRUE

\* self.rows_all[:] is self.rows_all: a slice is a new list
SliceIsSameList == FALSE

\* mutant: the sort state is not cleared
load_sheet_KeepSortState(book, sheet) ==
    LET ws == Workbooks[book].sheets[sheet]
    IN  /\ headers' = MakeHeaders(LoadedLastCol(ws))
        /\ rows_all' = LoadedRows(ws)
        /\ rows_view' = rows_all'
        /\ filter_var' = <<>>
        /\ UNCHANGED sort_state
        /\ render_table(rows_view')
        /\ hide_cell_highlight
        /\ view_aliased' = SliceIsSameList
        /\ UNCHANGED <<rc_col_index, view_rows, hl_enabled, host_vars, fn_vars>>
        /\ last_op' = "load"
        /\ last_sort' = NoSort
        /\ view_before' = <<>>
        /\ clicks' = EmptyDict

\* load_sheet with self.wb = book and self.sheet_var = sheet
load_sheet(book, sheet) ==
    LET ws == Workbooks[book].sheets[sheet]
    IN  /\ headers' = MakeHeaders(LoadedLastCol(ws))
        /\ rows_all' = LoadedRows(ws)
        /\ rows_view' = rows_all'
        /\ filter_var' = <<>>
        /\ sort_state' = EmptyDict
        /\ render_table(rows_view')
        /\ hide_cell_highlight
        /\ view_aliased' = SliceIsSameList
        /\ UNCHANGED <<rc_col_index, view_rows, hl_enabled, host_vars, fn_vars>>
        /\ last_op' = "load"
        /\ last_sort' = NoSort
        /\ view_before' = <<>>
        /\ clicks' = EmptyDict

\* open_file: the dialog is cancelled, the reader raises, or a workbook of
\* books is opened and its first sheet loaded
open_file_PathBeforeLoad(books) ==
    \/ /\ last_op' = "open_cancel"
       /\ view_before' = <<>>
       /\ UNCHANGED <<workbook_vars, grid_vars, rc_col_index, tree_vars,
                      view_rows, hl_enabled, hl_vars, last_sort, clicks,
                      view_aliased, host_vars, fn_vars>>
    \/ \E fp \in books :
          /\ file_path' = fp
          /\ last_op' = "open_error"
          /\ view_before' = <<>>
          /\ UNCHANGED <<wb, sheet_names, sheet_var, grid_vars, rc_col_index,
                         tree_vars, view_rows, hl_enabled, hl_vars, last_sort,
                         clicks, view_aliased, host_vars, fn_vars>>
    \/ \E fp \in books :
          /\ wb' = fp
          /\ file_path' = fp
          /\ sheet_names' = Workbooks[fp].sheetnames
          /\ sheet_var' = IF sheet_names' # <<>> THEN sheet_names'[1] ELSE ""
          /\ load_sheet(wb', sheet_var')

\* open_file: the dialog is cancelled, or load_workbook raises, or the
\* workbook opens and its first sheet is loaded
open_file(books) ==
    \/ /\ last_op' = "open_cancel"
       /\ view_before' = <<>>
       /\ UNCHANGED <<workbook_vars, grid_vars, rc_col_index, tree_vars,
                      view_rows, hl_enabled, hl_vars, last_sort, clicks,
                   view_aliased, host_vars, fn_vars>>
    \/ /\ last_op' = "open_error"
       /\ view_before' = <<>>
       /\ UNCHANGED <<workbook_vars, grid_vars, rc_col_index, tree_vars,
                      view_rows, hl_enabled, hl_vars, last_sort, clicks,
                   view_aliased, host_vars, fn_vars>>
    \/ \E fp \in books :
          /\ wb' = fp
          /\ file_path' = fp
          /\ sheet_names' = Workbooks[fp].sheetnames
          /\ sheet_var' = IF sheet_names' # <<>> THEN sheet_names'[1] ELSE ""
          /\ load_sheet(wb', sheet_var')

\* <<ComboboxSelected>> of the sheet combo: load_sheet
on_sheet_selected ==
    /\ wb # NoWb
    /\ \E i \in 1..Len(sheet_names) :
          /\ sheet_var' = sheet_names[i]
          /\ load_sheet(wb, sheet_var')
    /\ UNCHANGED <<wb, file_path, sheet_names>>

\* apply_filter with self.filter_var = text
apply_filter(text) ==
    /\ rows_view' = FilterRows(rows_all, text)
    /\ view_aliased' = (Lower(Strip(text)) = <<>> /\ SliceIsSameList)
    /\ render_table(rows_view')
    /\ draw_cell_highlight(tree_sel', rc_col_index, Len(headers), yview', view_rows)
    /\ view_before' = <<>>
    /\ UNCHANGED <<workbook_vars, headers, rows_all, sort_state, rc_col_index,
                   view_rows, hl_enabled, last_sort, clicks, host_vars, fn_vars>>

\* <KeyRelease> in the filter entry, which then holds a text of queries
on_filter_key(queries) ==
    \E text \in queries :
        /\ filter_var' = text
        /\ apply_filter(filter_var')
        /\ last_op' = "filter"

\* clear_filter
clear_filter ==
    /\ filter_var' = <<>>
    /\ apply_filter(filter_var')
    /\ last_op' = "clear"

\* sort_by_column(col_index), the command of a heading of the tree
sort_by_column(col_index) ==
    /\ col_index \in 0..(Len(headers) - 1)
    /\ IF rows_view = <<>>
       THEN /\ last_op' = "sort_empty"
            /\ view_before' = <<>>
            /\ UNCHANGED <<workbook_vars, grid_vars, rc_col_index, tree_vars,
                           view_rows, hl_enabled, hl_vars, last_sort, clicks,
                   view_aliased, host_vars, fn_vars>>
       ELSE LET asc == SortStateGet(sort_state, col_index)
            IN  /\ sort_state' = DictSet(sort_state, col_index, ~asc)
                /\ rows_view' = ListSort(rows_view, col_index, ~asc)
                /\ rows_all' = IF view_aliased THEN rows_view' ELSE rows_all
                /\ render_table(rows_view')
                /\ draw_cell_highlight(tree_sel', rc_col_index, Len(headers),
                                       yview', view_rows)
                /\ last_op' = IF last_op \in SortOps /\ last_sort.col = col_index
                               THEN "sort_again" ELSE "sort"
                /\ last_sort' = [col |-> col_index, asc |-> asc]
                /\ view_before' = rows_view
                /\ clicks' = [c \in (DOMAIN clicks) \cup {col_index} |->
                                  IF c = col_index THEN CountClick(ClicksOn(c))
                                  ELSE clicks[c]]
                /\ UNCHANGED <<workbook_vars, headers, filter_var, rc_col_index,
                               view_rows, hl_enabled, view_aliased, host_vars,
                               fn_vars>>

\* the events of the grid model: open, sheet switch, filter, sort
NextGrid ==
    \/ open_file(AllBooks)
    \/ on_sheet_selected
    \/ on_filter_key(AllQueries)
    \/ clear_filter
    \/ \E c \in 0..(Len(headers) - 1) : sort_by_column(c)

\* the grid events never select a row, so the overlay stays hidden whether or
\* not the platform enables it: one platform is enough
InitGrid == Init /\ hl_enabled

SpecGrid == InitGrid /\ [][NextGrid]_vars


\* the positions of the items the viewport shows
VisibleItems == {i \in 1..Len(tree_items) : yview < i /\ i <= yview + view_rows}

\* the furthest the tree of n items scrolls in a viewport of vr rows
MaxYView(n, vr) == IF n > vr THEN n - vr ELSE 0

\* on_right_click: the pointer is over no cell, or over the cell of a shown
\* item in display column #(c + 1)
on_right_click ==
    \/ /\ last_op' = "right_click_miss"
       /\ view_before' = <<>>
       /\ UNCHANGED <<workbook_vars, grid_vars, rc_col_index, tree_vars,
                      view_rows, hl_enabled, hl_vars, last_sort, clicks,
                   view_aliased, host_vars, fn_vars>>
    \/ \E i \in VisibleItems, c \in 0..(Len(headers) - 1) :
          /\ tree_sel' = i
          /\ rc_col_index' = c
          /\ draw_cell_highlight(tree_sel', rc_col_index', Len(headers),
                                 yview, view_rows)
          /\ last_op' = "right_click"
          /\ view_before' = <<>>
          /\ UNCHANGED <<workbook_vars, grid_vars, tree_items, yview,
                         view_rows, hl_enabled, last_sort, clicks,
                   view_aliased, host_vars, fn_vars>>

\* <<TreeviewSelect>>: a click selects a shown item, then _after_select
on_tree_select ==
    \E i \in VisibleItems :
        /\ tree_sel' = i
        /\ draw_cell_highlight(tree_sel', rc_col_index, Len(headers),
                               yview, view_rows)
        /\ last_op' = "select"
        /\ view_before' = <<>>
        /\ UNCHANGED <<workbook_vars, grid_vars, rc_col_index, tree_items,
                       yview, view_rows, hl_enabled, last_sort, clicks,
                   view_aliased, host_vars, fn_vars>>

\* _on_yscroll: the vertical scrollbar moves the tree
on_yscroll ==
    \E yv \in 0..MaxYView(Len(tree_items), view_rows) :
        /\ yview' = yv
        /\ draw_cell_highlight(tree_sel, rc_col_index, Len(headers),
                               yview', view_rows)
        /\ last_op' = "yscroll"
        /\ view_before' = <<>>
        /\ UNCHANGED <<workbook_vars, grid_vars, rc_col_index, tree_items,
                       tree_sel, view_rows, hl_enabled, last_sort, clicks,
                   view_aliased, host_vars, fn_vars>>

\* the mouse wheel over the tree scrolls it by the widget's own binding,
\* which calls no handler of the application
tree_mousewheel ==
    \E yv \in 0..MaxYView(Len(tree_items), view_rows) :
        /\ yv # yview
        /\ yview' = yv
        /\ last_op' = "wheel"
        /\ view_before' = <<>>
        /\ UNCHANGED <<workbook_vars, grid_vars, rc_col_index, tree_items,
                       tree_sel, view_rows, hl_enabled, hl_vars, last_sort, clicks,
                   view_aliased, host_vars, fn_vars>>

\* <Configure>: the window is resized to show vr rows, then draw_cell_highlight
on_configure ==
    \E vr \in 1..MaxViewRows :
        /\ view_rows' = vr
        /\ yview' = Min(yview, MaxYView(Len(tree_items), vr))
        /\ draw_cell_highlight(tree_sel, rc_col_index, Len(headers),
                               yview', view_rows')
        /\ last_op' = "configure"
        /\ view_before' = <<>>
        /\ UNCHANGED <<workbook_vars, grid_vars, rc_col_index, tree_items,
                       tree_sel, hl_enabled, last_sort, clicks,
                   view_aliased, host_vars, fn_vars>>

\* every event, on the small workbook
Next ==
    \/ open_file(SmallBooks)
    \/ on_sheet_selected
    \/ on_filter_key(SmallQueries)
    \/ clear_filter
    \/ \E c \in 0..(Len(headers) - 1) : sort_by_column(c)
    \/ on_right_click
    \/ on_tree_select
    \/ on_yscroll
    \/ tree_mousewheel
    \/ on_configure

Spec == Init /\ [][Next]_vars


(***************************************************************************)
(* Query normalization, engine registry, search URL                        *)
(***************************************************************************)
\* re.sub(r"\s+", " ", s): every run of whitespace becomes one space
RECURSIVE CollapseSpaces(_)
CollapseSpaces(s) ==
    IF s = <<>> THEN <<>>
    ELSE IF IsSpace(s[1]) THEN <<" ">> \o CollapseSpaces(LStrip(Tail(s)))
    ELSE <<s[1]>> \o CollapseSpaces(Tail(s))

\* s.replace(old, new) for one-character old and new
ReplaceChar(s, old, new) == [i \in 1..Len(s) |-> IF s[i] = old THEN new ELSE s[i]]

\* mutant: the whitespace runs are not collapsed
normalize_query_NoCollapse(s) ==
    IF s = <<>> THEN <<>>
    ELSE LET s1 == ReplaceChar(ReplaceChar(s, "\r", " "), "\n", " ")
             s2 == ReplaceChar(s1, FullWidthSpace, " ")
         IN  Strip(s2)

\* normalize_query: CR, LF and the full-width space become spaces, whitespace
\* runs become one space, the ends are stripped
normalize_query(s) ==
    IF s = <<>> THEN <<>>
    ELSE LET s1 == ReplaceChar(ReplaceChar(s, "\r", " "), "\n", " ")
             s2 == ReplaceChar(s1, FullWidthSpace, " ")
             s3 == CollapseSpaces(s2)
         IN  Strip(s3)

\* the placeholder of a URL template; a template is a sequence of pieces of
\* text, the placeholder being one piece
Placeholder == "{query}"

\* "{query}" in url
HasPlaceholder(url) == \E i \in 1..Len(url) : url[i] = Placeholder

\* the built-in registry
DEFAULT_ENGINES ==
    [n \in {"Google", "Bing", "DuckDuckGo", "Perplexity"} |->
        CASE n = "Google" -> <<"https://www.google.com/search?q=", Placeholder>>
          [] n = "Bing" -> <<"https://www.bing.com/search?q=", Placeholder>>
          [] n = "DuckDuckGo" -> <<"https://duckduckgo.com/?q=", Placeholder>>
          [] n = "Perplexity" -> <<"https://www.perplexity.ai/search?q=", Placeholder>>]

\* a section of the engines file: its header and its name and url options,
\* None for an option the section does not have
Section(sec, name, url) == [sec |-> sec, name |-> name, url |-> url]

\* the value cfg.get returns for an option text under configparser's
\* BasicInterpolation: "%%" stands for "%", any other "%" raises
\* InterpolationSyntaxError
BasicInterpolation(v) ==
    IF \E i \in 1..Len(v) : v[i] = "%"
    THEN [raised |-> TRUE, s |-> <<>>]
    ELSE [raised |-> FALSE, s |-> [i \in 1..Len(v) |-> IF v[i] = "%%" THEN "%" ELSE v[i]]]

\* cfg.get(sec, option, fallback=fallback)
cfg_get(option, fallback) ==
    IF option.none THEN [raised |-> FALSE, s |-> fallback]
    ELSE BasicInterpolation(option.s)

\* the loop of load_engines from section i on, engines being the registry so far
RECURSIVE load_engines_from(_, _, _)
load_engines_from(ini, i, engines_so_far) ==
    IF i > Len(ini)
    THEN [raised |-> FALSE,
          engines |-> IF engines_so_far = EmptyDict THEN DEFAULT_ENGINES
                      ELSE engines_so_far]
    ELSE LET name == cfg_get(ini[i].name, <<ini[i].sec>>)
             url  == cfg_get(ini[i].url, <<>>)
         IN  IF name.raised \/ url.raised
             THEN [raised |-> TRUE, engines |-> EmptyDict]
             ELSE IF ~HasPlaceholder(url.s)
             THEN load_engines_from(ini, i + 1, engines_so_far)
             ELSE load_engines_from(ini, i + 1,
                                    DictSet(engines_so_far, name.s[1], url.s))

\* load_engines(path), ini being the sections of the file at path in order
load_engines(ini) == load_engines_from(ini, 1, EmptyDict)

\* the engines file ensure_default_files writes on the first start
DefaultIni ==
    << Section("google", Text(<<"Google">>), Text(DEFAULT_ENGINES["Google"])),
       Section("bing", Text(<<"Bing">>), Text(DEFAULT_ENGINES["Bing"])),
       Section("duckduckgo", Text(<<"DuckDuckGo">>), Text(DEFAULT_ENGINES["DuckDuckGo"])),
       Section("perplexity", Text(<<"Perplexity">>), Text(DEFAULT_ENGINES["Perplexity"])) >>

\* self.engines
engines == load_engines(DefaultIni).engines

\* _alt_engine with the config.ini of the first start
alt_engine ==
    IF "Perplexity" \in DOMAIN engines THEN "Perplexity"
    ELSE CHOOSE n \in DOMAIN engines : TRUE

\* the percent-encoding of one character by urllib.parse.quote(query, safe="")
QuoteChar(c) ==
    CASE c = " "  -> <<"%", "2", "0">>
      [] c = "\t" -> <<"%", "0", "9">>
      [] c = "\n" -> <<"%", "0", "A">>
      [] c = "\r" -> <<"%", "0", "D">>
      [] c = FullWidthSpace -> <<"%", "E", "3", "%", "8", "0", "%", "8", "0">>
      [] OTHER    -> <<c>>

RECURSIVE Quote(_)
Quote(query) ==
    IF query = <<>> THEN <<>> ELSE QuoteChar(query[1]) \o Quote(Tail(query))

\* tpl.replace("{query}", enc)
RECURSIVE ReplacePlaceholder(_, _)
ReplacePlaceholder(tpl, enc) ==
    IF tpl = <<>> THEN <<>>
    ELSE (IF tpl[1] = Placeholder THEN enc ELSE <<tpl[1]>>)
            \o ReplacePlaceholder(Tail(tpl), enc)

\* _make_search_url: the engine's template, or Google's for an unknown name,
\* with the percent-encoded query in the placeholder's place
make_search_url(engine_name, query) ==
    LET tpl == IF engine_name \in DOMAIN engines THEN engines[engine_name]
               ELSE DEFAULT_ENGINES["Google"]
    IN  ReplacePlaceholder(tpl, Quote(query))

\* _get_selected_values
SelectedValues == IF tree_sel = 0 THEN <<>> ELSE tree_items[tree_sel]

\* _get_selected_cell_text_raw
SelectedCellTextRaw ==
    LET vals == SelectedValues
        ci   == IF rc_col_index # NoCol THEN rc_col_index ELSE 1
    IN  IF vals = <<>> THEN <<>>
        ELSE IF 0 <= ci /\ ci < Len(vals) THEN vals[ci + 1]
        ELSE <<>>

\* _get_selected_cell_text
SelectedCellText == normalize_query(SelectedCellTextRaw)

\* what a search or copy handler leaves alone
search_frame ==
    /\ view_before' = <<>>
    /\ UNCHANGED <<workbook_vars, grid_vars, rc_col_index, tree_vars, view_rows,
                   hl_enabled, hl_vars, last_sort, clicks, view_aliased,
                   engine_var, fn_vars>>

\* mutant: the empty query is searched too
search_with_engine_NoGuard(engine_name) ==
    /\ browser' = make_search_url(engine_name, SelectedCellText)
    /\ last_op' = "search_menu"
    /\ UNCHANGED clipboard
    /\ search_frame

\* the search menu's entry of engine_name
search_with_engine(engine_name) ==
    /\ browser' = IF SelectedCellText = <<>> THEN browser
                  ELSE make_search_url(engine_name, SelectedCellText)
    /\ last_op' = "search_menu"
    /\ UNCHANGED clipboard
    /\ search_frame

\* <Return> in the filter box
search_default_engine ==
    /\ browser' = IF SelectedCellText = <<>> THEN browser
                  ELSE make_search_url(engine_var, SelectedCellText)
    /\ last_op' = "search_enter"
    /\ UNCHANGED clipboard
    /\ search_frame

\* <Control-Return>
search_alt_engine ==
    /\ browser' = IF SelectedCellText = <<>> THEN browser
                  ELSE make_search_url(alt_engine, SelectedCellText)
    /\ last_op' = "search_ctrl_enter"
    /\ UNCHANGED clipboard
    /\ search_frame

\* the menu's copy entry and <Control-c>
copy_cell_text ==
    /\ clipboard' = IF SelectedCellTextRaw = <<>> THEN clipboard
                    ELSE SelectedCellTextRaw
    /\ last_op' = "copy_cell"
    /\ UNCHANGED browser
    /\ search_frame

\* the menu's copy-URL entry and <Control-Shift-C>
copy_search_url ==
    /\ clipboard' = IF SelectedCellText = <<>> THEN clipboard
                    ELSE make_search_url(engine_var, SelectedCellText)
    /\ last_op' = "copy_url"
    /\ UNCHANGED browser
    /\ search_frame

\* <<ComboboxSelected>> of the engine combo
on_engine_changed ==
    \E n \in DOMAIN engines :
        /\ engine_var' = n
        /\ last_op' = "engine"
        /\ view_before' = <<>>
        /\ UNCHANGED <<workbook_vars, grid_vars, rc_col_index, tree_vars,
                       view_rows, hl_enabled, hl_vars, last_sort, clicks,
                       view_aliased, clipboard, browser, fn_vars>>

\* the events of a search session: open, sheet switch, filter, right-click,
\* selection, engine choice, the three searches and the two copies
NextSearch ==
    \/ open_file(SearchBooks)
    \/ on_sheet_selected
    \/ on_filter_key(SearchQueries)
    \/ on_right_click
    \/ on_tree_select
    \/ on_engine_changed
    \/ \E n \in DOMAIN engines : search_with_engine(n)
    \/ search_default_engine
    \/ search_alt_engine
    \/ copy_cell_text
    \/ copy_search_url

\* searching and copying never look at the overlay: the platform without it
\* is enough
InitSearch == Init /\ ~hl_enabled

SpecSearch == InitSearch /\ [][NextSearch]_vars


(***************************************************************************)
(* Properties                                                              *)
(***************************************************************************)
\* the worksheet the grid was loaded from
LoadedSheet == Workbooks[wb].sheets[sheet_var]

\* row r occurs in the sequence rows
InRows(r, rows) == \E i \in 1..Len(rows) : rows[i] = r

\* the position of row r in rows
PosIn(r, rows) == CHOOSE i \in 1..Len(rows) : rows[i] = r

NoRepeat(rows) ==
    \A i, j \in 1..Len(rows) : i # j => rows[i] # rows[j]

SameRows(a, b) ==
    /\ Len(a) = Len(b)
    /\ NoRepeat(a)
    /\ \A i \in 1..Len(a) : InRows(a[i], b)

\* the text holds nothing but whitespace
IsBlank(text) == \A i \in 1..Len(text) : IsSpace(text[i])

\* rows is ordered by the key of column col, ascending or descending
IsSortedBy(rows, col, asc) ==
    \A i \in 1..(Len(rows) - 1) :
        IF asc THEN ~KeyLess(col, rows[i + 1], rows[i])
        ELSE ~KeyLess(col, rows[i], rows[i + 1])

\* the rows, by their row numbers, come in load order
InLoadOrder(rows) ==
    \A i \in 1..(Len(rows) - 1) : IntKey(rows[i]) < IntKey(rows[i + 1])

\* C1: in every state reached by sheet loads, filter changes, filter clears
\* and sort clicks, every row of rows_view is a row of rows_all and no row
\* occurs in rows_view twice
C1_ViewWithinAll ==
    /\ \A i \in 1..Len(rows_view) : InRows(rows_view[i], rows_all)
    /\ NoRepeat(rows_view)

\* a filtered view (2 of 3 rows) that a sort has put out of load order
C1_Witness ==
    /\ last_op \in SortOps
    /\ Len(rows_all) = 3
    /\ Len(rows_view) = 2
    /\ IntKey(rows_view[1]) > IntKey(rows_view[2])

\* the row-number cell of row r parses to n
HasNumber(r, n) == Len(r) >= 1 /\ IntParses(r[1]) /\ IntOfStr(r[1]) = n

\* row r carries the cell values the sheet holds in its row n
HasValuesOf(r, n) ==
    /\ n \in 1..Len(LoadedSheet.cells)
    /\ \A j \in 1..(Len(r) - 1) :
          r[j + 1] = IF j <= Len(LoadedSheet.cells[n]) /\ ~LoadedSheet.cells[n][j].none
                     THEN LoadedSheet.cells[n][j].s ELSE <<>>

\* C2: the i-th row of rows_all has row number i, and every row of rows_all
\* and of rows_view pairs a row number with the cell values that row of the
\* sheet had at load time, whatever filters and sorts came after
C2_RowNumbers ==
    /\ \A i \in 1..Len(rows_all) :
          HasNumber(rows_all[i], i) /\ HasValuesOf(rows_all[i], i)
    /\ \A i, j \in 1..Len(rows_all) : i # j => rows_all[i][1] # rows_all[j][1]
    /\ \A i \in 1..Len(rows_view) :
          /\ IntParses(rows_view[i][1])
          /\ HasValuesOf(rows_view[i], IntOfStr(rows_view[i][1]))

\* a descending sort has put row 3 first, after a filter was applied and cleared
C2_Witness ==
    /\ last_op \in SortOps
    /\ ~last_sort.asc
    /\ Len(rows_view) = 3
    /\ HasNumber(rows_view[1], 3)
    /\ rows_view[1][2] = <<"A">>


\* row r passes the filter text: the text is blank, or its stripped,
\* lower-cased form occurs in the lower-cased tab-joined row
PassesFilter(r, text) ==
    IsBlank(text) \/ IsSubstring(Lower(Strip(text)), Lower(Join(r)))

\* C3 as stated: within one sheet load rows_view holds exactly the rows that
\* match the current filter text, in the order of the most recent sort
\* (column and direction), also when a filter change came after that sort
C3_FilteredAndSorted ==
    /\ SameRows(rows_view, FilterRows(rows_all, filter_var))
    /\ last_sort # NoSort => IsSortedBy(rows_view, last_sort.col, last_sort.asc)

\* C3 amended: rows_view holds exactly the rows of rows_all that match the
\* current filter text; right after a sort click it is in that sort's order,
\* and right after a load, a filter change or a clear it is in load order,
\* whatever sort came before
C3_FilteredThenSorted ==
    /\ \A j \in 1..Len(rows_all) :
          InRows(rows_all[j], rows_view) <=> PassesFilter(rows_all[j], filter_var)
    /\ C1_ViewWithinAll
    /\ last_op \in SortOps => IsSortedBy(rows_view, last_sort.col, last_sort.asc)
    /\ last_op \in {"load", "filter", "clear"} => InLoadOrder(rows_view)

\* a filter change after a sort by column B has left two rows in load order,
\* which is not the order of that sort
C3_Witness ==
    /\ last_op = "filter"
    /\ last_sort # NoSort
    /\ ~IsBlank(filter_var)
    /\ Len(rows_view) = 2
    /\ ~IsSortedBy(rows_view, last_sort.col, last_sort.asc)

\* C4: a filter applied with an empty or whitespace-only text, by a key or
\* by the clear button, leaves rows_view equal to rows_all, every row in
\* load order
C4_BlankFilterShowsAll ==
    (last_op \in {"filter", "clear"} /\ IsBlank(filter_var)) =>
        /\ rows_view = rows_all
        /\ \A i \in 1..Len(rows_view) : HasNumber(rows_view[i], i)

\* a whitespace-only text typed after a sort of the three-row sheet
C4_Witness ==
    /\ last_op = "filter"
    /\ filter_var = <<" ">>
    /\ last_sort # NoSort
    /\ Len(rows_all) = 3
    /\ rows_view = rows_all

\* C5 as stated: after a filter with a non-blank text q, a row of rows_all
\* is in rows_view iff the lower-cased q is a substring of the lower-cased
\* join of all its columns, and the kept rows are in rows_all order
C5_KeptIffTypedTextOccurs ==
    (last_op = "filter" /\ ~IsBlank(filter_var)) =>
        /\ \A j \in 1..Len(rows_all) :
              InRows(rows_all[j], rows_view) <=>
                  IsSubstring(Lower(filter_var), Lower(Join(rows_all[j])))
        /\ InLoadOrder(rows_view)

\* C5 amended: the text is tested with its leading and trailing whitespace
\* removed
C5_KeptIffStrippedTextOccurs ==
    (last_op = "filter" /\ ~IsBlank(filter_var)) =>
        /\ \A j \in 1..Len(rows_all) :
              InRows(rows_all[j], rows_view) <=>
                  IsSubstring(Lower(Strip(filter_var)), Lower(Join(rows_all[j])))
        /\ \A i \in 1..Len(rows_view) : InRows(rows_view[i], rows_all)
        /\ InLoadOrder(rows_view)

\* the text "a" keeps rows 1 and 3 of the three-row sheet, whose cells are
\* "a" and "A", and drops row 2
C5_Witness ==
    /\ last_op = "filter"
    /\ filter_var = <<"a">>
    /\ Len(rows_all) = 3
    /\ Len(rows_view) = 2
    /\ HasNumber(rows_view[1], 1)
    /\ HasNumber(rows_view[2], 3)
    /\ rows_view[2][2] = <<"A">>


\* rows with equal keys in column col are in the same relative order in
\* after as in before
TiesKeepOrder(before, after, col) ==
    \A i, j \in 1..Len(before) :
        (i < j /\ KeyEqual(col, before[i], before[j])) =>
            /\ InRows(before[i], after)
            /\ InRows(before[j], after)
            /\ PosIn(before[i], after) < PosIn(before[j], after)

\* C6: a sort click, ascending or descending, keeps rows of equal key in the
\* relative order they had before it and changes only the order of
\* rows_view, never its rows
C6_SortStable ==
    last_op \in SortOps =>
        /\ SameRows(rows_view, view_before)
        /\ TiesKeepOrder(view_before, rows_view, last_sort.col)

\* a descending sort by column A moved row 2 ("B") before rows 1 and 3,
\* whose keys are equal, and left row 1 before row 3
C6_Witness ==
    /\ last_op \in SortOps
    /\ ~last_sort.asc
    /\ last_sort.col = 1
    /\ Len(rows_view) = 3
    /\ rows_view # view_before
    /\ \E i, j \in 1..3 :
          i < j /\ KeyEqual(1, view_before[i], view_before[j])
                /\ view_before[i] # view_before[j]

\* C7 as stated: a second click on the same column, right after the first,
\* returns rows_view to the order it had before the first click
C7_TwoClicksRestoreOrder ==
    [][(last_op \in SortOps /\ last_op' = "sort_again") =>
          rows_view' = view_before]_vars

\* C7 amended: the second click leaves the same rows, ordered by the
\* column's key in the direction opposite to the first click's, and rows of
\* equal key in the relative order they had before the first click
C7_TwoClicksReverseKeys ==
    [][(last_op \in SortOps /\ last_op' = "sort_again") =>
          /\ SameRows(rows_view', view_before)
          /\ last_sort'.asc = ~last_sort.asc
          /\ IsSortedBy(rows_view', last_sort'.col, last_sort'.asc)
          /\ TiesKeepOrder(view_before, rows_view', last_sort'.col)]_vars

\* the second of two clicks on column A sorted the three rows descending
C7_Witness ==
    /\ last_op = "sort_again"
    /\ last_sort = [col |-> 1, asc |-> FALSE]
    /\ Len(rows_view) = 3
    /\ HasNumber(rows_view[1], 2)
    /\ HasNumber(rows_view[2], 1)
    /\ HasNumber(rows_view[3], 3)

\* C8: within one sheet load the k-th click on a column that finds rows_view
\* non-empty sorts ascending for odd k and descending for even k, and a
\* column's remembered direction changes only by a click on that column
C8_DirectionPerColumn ==
    [][/\ last_op' \in SortOps =>
             /\ last_sort'.asc = (ClicksIn(clicks', last_sort'.col) % 2 = 1)
             /\ IsSortedBy(rows_view', last_sort'.col, last_sort'.asc)
       /\ \A c \in (DOMAIN sort_state) \cup (DOMAIN sort_state') :
             SortStateGet(sort_state', c) # SortStateGet(sort_state, c) =>
                 \/ last_op' \in SortOps /\ last_sort'.col = c
                 \/ last_op' = "load"]_vars

\* the second click on column B, descending, while column A has been clicked
\* once and a filter text is set
C8_Witness ==
    /\ last_op \in SortOps
    /\ last_sort = [col |-> 2, asc |-> FALSE]
    /\ ClicksOn(2) = 2
    /\ ClicksOn(1) = 1
    /\ filter_var # <<>>
    /\ Len(rows_view) >= 2

\* C9: a sheet load leaves rows_view equal to the new rows_all in load
\* order, the filter text empty and the sort state empty, and the first
\* click on a column after the load sorts ascending
C9_LoadResets ==
    /\ last_op = "load" =>
          /\ rows_view = rows_all
          /\ \A i \in 1..Len(rows_all) :
                HasNumber(rows_all[i], i) /\ HasValuesOf(rows_all[i], i)
          /\ Len(rows_all) = Len(LoadedSheet.cells)
          /\ filter_var = <<>>
          /\ sort_state = EmptyDict
    /\ (last_op \in SortOps /\ ClicksOn(last_sort.col) = 1) => last_sort.asc

\* the second sheet of the first workbook has been loaded by a sheet switch
C9_Witness ==
    /\ last_op = "load"
    /\ sheet_var = "Gap"
    /\ Len(rows_view) = 2

\* C10: after load_sheet no column reference chosen by an earlier
\* right-click is left
C10_LoadClearsColumn ==
    last_op = "load" => rc_col_index = NoCol

\* what self.tree.bbox reports now for the selected row and the chosen column
CurrentBBox ==
    TreeBBox(tree_sel, rc_col_index, Len(headers), yview, view_rows)

\* the overlay lies on the box the grid reports now
OverlayOnCurrentBox ==
    /\ tree_sel # 0
    /\ rc_col_index # NoCol
    /\ CurrentBBox.kind = "box"
    /\ hl_geom = [x |-> CurrentBBox.x, y |-> CurrentBBox.y]

\* C11: after every event, a Visible overlay lies on the bounding box the
\* grid reports now for the selected row and the chosen column
C11_OverlayMatchesBBox ==
    hl_visible => OverlayOnCurrentBox

\* the events that re-render the grid from a filter or a sort
RerenderOps == {"filter", "clear", "sort", "sort_again"}

\* the position in rows of the row whose row number is num, 0 when absent
IndexOfNumber(rows, num) ==
    IF \E i \in 1..Len(rows) : rows[i][1] = num
    THEN CHOOSE i \in 1..Len(rows) : rows[i][1] = num
    ELSE 0

\* C12: when the overlay is Visible on a selected cell and a filter or sort
\* re-render leaves that row's number in rows_view at a place the grid shows,
\* the overlay is Visible afterwards on the fresh box of that row and column
C12_OverlaySurvivesRerender ==
    [][(/\ hl_visible
        /\ OverlayOnCurrentBox
        /\ last_op' \in RerenderOps
        /\ IndexOfNumber(rows_view', tree_items[tree_sel][1]) \in
               (yview' + 1)..(yview' + view_rows'))
       => /\ hl_visible'
          /\ hl_geom' = [x |-> rc_col_index + 1,
                         y |-> IndexOfNumber(rows_view', tree_items[tree_sel][1])
                                  - yview']]_vars

\* the events whose handler ends in draw_cell_highlight
DrawOps == {"select", "right_click", "yscroll", "configure"} \cup RerenderOps

\* the draw_cell_highlight of the last event ended in the TclError of
\* self.tree.bbox
DrawRaised ==
    /\ hl_enabled
    /\ tree_sel # 0
    /\ rc_col_index # NoCol
    /\ CurrentBBox.kind = "error"

\* C13: after an event that recomputes the overlay, where the overlay is in
\* use, it is Visible exactly when a row is selected, a column is chosen and
\* the grid reports a box for them, and the recomputation raised no error
C13_VisibleIffBox ==
    (hl_enabled /\ last_op \in DrawOps) =>
        /\ hl_visible <=> (tree_sel # 0 /\ rc_col_index # NoCol
                              /\ CurrentBBox.kind = "box")
        /\ ~DrawRaised

\* C14: an open attempt that is cancelled or whose load_workbook raises
\* leaves the workbook, the path, the sheet names, the headers, rows_all,
\* rows_view, the filter text, the sort state and the overlay as they were
C14_FailedOpenKeepsState ==
    [][last_op' \in {"open_cancel", "open_error"} =>
          UNCHANGED <<workbook_vars, grid_vars, hl_vars, rc_col_index,
                      tree_vars>>]_vars

\* a workbook is open and filtered, and a later open attempt has failed
C14_Witness ==
    /\ last_op = "open_error"
    /\ wb # NoWb
    /\ filter_var # <<>>
    /\ Len(rows_view) >= 1

\* the events that re-render the grid together with the Enter search and the
\* two copies: open, sheet choice, filter, clear, sort, right-click, selection
NextRerender ==
    \/ open_file(RerenderBooks)
    \/ on_sheet_selected
    \/ on_filter_key(RerenderQueries)
    \/ clear_filter
    \/ \E c \in 0..(Len(headers) - 1) : sort_by_column(c)
    \/ on_right_click
    \/ on_tree_select
    \/ search_default_engine
    \/ copy_cell_text
    \/ copy_search_url

\* the platform with the overlay
InitRerender == Init /\ hl_enabled

SpecRerender == InitRerender /\ [][NextRerender]_vars

(***************************************************************************)
(* The functions on their own: load_engines, normalize_query, the load     *)
(***************************************************************************)
\* what a function call leaves alone: the whole session
session_frame ==
    UNCHANGED <<workbook_vars, grid_vars, rc_col_index, tree_vars, view_rows,
                hl_enabled, hl_vars, view_aliased, host_vars, last_sort,
                view_before, clicks>>

\* the most sections an engines file has
MaxSections == 2

\* the header of the i-th section
SectionId(i) == IF i = 1 THEN "s1" ELSE IF i = 2 THEN "s2" ELSE "s3"

\* the name option of a section: absent or a name
NameOptions == {None, Text(<<"Google">>), Text(<<"X">>)}

\* the url option of a section: absent, without the placeholder, with it,
\* and with a "%" (as in "%s" or "%20") or an escaped "%%"
UrlOptions ==
    {None, Text(<<"u">>), Text(<<"u", Placeholder>>), Text(<<"u", "%">>),
     Text(<<"u", Placeholder, "%">>), Text(<<"u", Placeholder, "%%">>)}

IniFilesOfLen(n) ==
    {[i \in 1..n |-> Section(SectionId(i), f[i][1], f[i][2])] :
        f \in [1..n -> NameOptions \X UrlOptions]}

\* the engines files: up to MaxSections sections
IniFiles == UNION {IniFilesOfLen(n) : n \in 0..MaxSections}

InitEngines ==
    /\ InitSession
    /\ hl_enabled
    /\ arg \in IniFiles
    /\ result = <<>>
    /\ last_op = "ini"

\* self.engines = load_engines(self.engines_path)
call_load_engines ==
    /\ last_op = "ini"
    /\ result' = load_engines(arg)
    /\ last_op' = "load_engines"
    /\ UNCHANGED arg
    /\ session_frame

NextEngines == call_load_engines

SpecEngines == InitEngines /\ [][NextEngines]_vars

\* the longest text normalized, in characters
MaxNormLen == 4

\* an ordinary character, space, CR, LF, tab and the full-width space
NormChars == {"x", " ", "\r", "\n", "\t", FullWidthSpace}

RECURSIVE TextsUpTo(_)
TextsUpTo(n) ==
    IF n = 0 THEN {<<>>}
    ELSE LET shorter == TextsUpTo(n - 1)
         IN  shorter \cup {Append(s, c) : s \in shorter, c \in NormChars}

InitNormalize ==
    /\ InitSession
    /\ hl_enabled
    /\ arg \in TextsUpTo(MaxNormLen)
    /\ result = <<>>
    /\ last_op = "text"

\* normalize_query(arg)
call_normalize ==
    /\ last_op = "text"
    /\ result' = normalize_query(arg)
    /\ last_op' = "normalize"
    /\ UNCHANGED arg
    /\ session_frame

\* normalize_query of the last output
call_normalize_again ==
    /\ last_op = "normalize"
    /\ arg' = result
    /\ result' = normalize_query(result)
    /\ last_op' = "normalize_again"
    /\ session_frame

NextNormalize == call_normalize \/ call_normalize_again

SpecNormalize == InitNormalize /\ [][NextNormalize]_vars

\* the most rows and the most columns of a sheet loaded on its own
MaxSheetRows == 2

MaxSheetCols == 2

\* the rows a file can store: up to n cells, each None or a text
RowsUpTo(n) ==
    UNION {[1..k -> {None, Text(<<"a">>)}] : k \in 0..n}

\* the row lists of up to MaxSheetRows rows of up to n cells
CellsUpTo(n) ==
    UNION {[1..m -> RowsUpTo(n)] : m \in 0..MaxSheetRows}

\* the worksheets with a dimension record of max_col columns, no row storing
\* more than max_col cells
SizedSheets ==
    {ws \in [max_col : 1..MaxSheetCols, cells : CellsUpTo(MaxSheetCols)] :
        \A i \in 1..Len(ws.cells) : Len(ws.cells[i]) <= ws.max_col}

\* and those without one (max_column None), the rows as stored
AllSheets == SizedSheets \cup {Sheet(0, cells) : cells \in CellsUpTo(MaxSheetCols)}

InitLoad ==
    /\ InitSession
    /\ hl_enabled
    /\ arg \in AllSheets
    /\ result = <<>>
    /\ last_op = "sheet"

\* the values, the headers and rows_all that load_sheet computes from the
\* worksheet arg
call_load_sheet ==
    /\ last_op = "sheet"
    /\ result' = [values   |-> SheetValues(arg),
                  headers  |-> MakeHeaders(LoadedLastCol(arg)),
                  rows_all |-> LoadedRows(arg)]
    /\ last_op' = "load_sheet"
    /\ UNCHANGED arg
    /\ session_frame

NextLoad == call_load_sheet

SpecLoad == InitLoad /\ [][NextLoad]_vars

\* the handlers of the search actions and of the two copies
SearchCopyOps ==
    {"search_menu", "search_enter", "search_ctrl_enter", "copy_cell", "copy_url"}

\* C15: a search or copy invoked with no row selected or on a cell whose text
\* is empty opens no URL, leaves the clipboard, rows_all, rows_view, the sort
\* state and the selection as they were; and whenever the browser is opened,
\* its URL is built from the non-empty normalized text of the selected cell
C15_EmptySelectionNoOp ==
    [][/\ (last_op' \in SearchCopyOps
           /\ (tree_sel = 0 \/ SelectedCellTextRaw = <<>>))
          => UNCHANGED <<browser, clipboard, rows_all, rows_view, sort_state,
                         tree_sel>>
       /\ browser' # browser
          => /\ normalize_query(SelectedCellTextRaw) # <<>>
             /\ \E n \in DOMAIN engines :
                   browser' = make_search_url(n, normalize_query(SelectedCellTextRaw))]_vars

\* a search was invoked on a selected empty cell after an earlier search and
\* an earlier copy went through
C15_Witness ==
    /\ last_op = "search_menu"
    /\ tree_sel # 0
    /\ SelectedCellTextRaw = <<>>
    /\ browser # NoUrl
    /\ clipboard # NoText

\* the sections of the engines file whose url option holds the placeholder
ValidSections(ini) ==
    {i \in 1..Len(ini) : ~ini[i].url.none /\ HasPlaceholder(ini[i].url.s)}

\* the name under which section i is registered
SectionName(ini, i) == IF ini[i].name.none THEN ini[i].sec ELSE ini[i].name.s[1]

\* C16: for every engines file load_engines returns a registry; it is not
\* empty, every template in it holds the placeholder, its entries are the
\* sections whose url holds the placeholder, and it is the built-in registry
\* when there is no such section
C16_RegistryValid ==
    last_op = "load_engines" =>
        /\ ~result.raised
        /\ result.engines # EmptyDict
        /\ \A n \in DOMAIN result.engines : HasPlaceholder(result.engines[n])
        /\ IF ValidSections(arg) = {}
           THEN result.engines = DEFAULT_ENGINES
           ELSE DOMAIN result.engines =
                   {SectionName(arg, i) : i \in ValidSections(arg)}

\* no CR, LF or full-width space, no two adjacent whitespace characters, no
\* whitespace at either end
WellFormedQuery(s) ==
    /\ \A i \in 1..Len(s) : s[i] \notin {"\r", "\n", FullWidthSpace}
    /\ \A i \in 1..(Len(s) - 1) : ~(IsSpace(s[i]) /\ IsSpace(s[i + 1]))
    /\ s # <<>> => ~IsSpace(s[1]) /\ ~IsSpace(s[Len(s)])

\* C17: normalize_query of an output of normalize_query gives that output
\* back, and every output is free of CR, LF, full-width space, adjacent
\* whitespace and whitespace at its ends
C17_NormalizeIdempotent ==
    /\ last_op \in {"normalize", "normalize_again"} => WellFormedQuery(result)
    /\ last_op = "normalize_again" => result = arg

\* an output with a space inside has been normalized again
C17_Witness ==
    /\ last_op = "normalize_again"
    /\ \E i \in 1..Len(arg) : arg[i] = " "
    /\ \E i \in 1..Len(arg) : arg[i] = "x"

\* the 1-based index of the last column with a non-empty value in some row
\* of values, 0 when there is none
LastUsedColumn(values) ==
    LET used == {j \in 1..(MaxSheetCols + 1) :
                    \E i \in 1..Len(values) :
                        j <= Len(values[i]) /\ values[i][j] # <<>>}
    IN  IF used = {} THEN 0 ELSE CHOOSE j \in used : \A k \in used : k <= j

\* the rows of ws in the order p
Reordered(ws, p) == Sheet(ws.max_col, [i \in 1..Len(ws.cells) |-> ws.cells[p[i]]])

\* C18: the load keeps as many data columns as the index of the last column
\* with a non-empty value in some row, one header each, whatever the order
\* of the rows
C18_KeptColumns ==
    last_op = "load_sheet" =>
        /\ Len(result.headers) - 1 = LastUsedColumn(result.values)
        /\ \A p \in Permutations(1..Len(arg.cells)) :
              MakeHeaders(LoadedLastCol(Reordered(arg, p))) = result.headers

\* C19: after a load every row of rows_all has as many columns as there are
\* headers, and holds the empty string where the file stores no cell
C19_RowsAsWideAsHeaders ==
    last_op = "load_sheet" =>
        \A i \in 1..Len(result.rows_all) :
            /\ Len(result.rows_all[i]) = Len(result.headers)
            /\ \A j \in 1..(Len(result.headers) - 1) :
                  j > Len(arg.cells[i]) => result.rows_all[i][j + 1] = <<>>

\* a sheet has been loaded in which a stored row is shorter than the kept
\* column count and another is not
C19_Witness ==
    /\ last_op = "load_sheet"
    /\ \E i, k \in 1..Len(arg.cells) :
          /\ Len(arg.cells[i]) < Len(result.headers) - 1
          /\ Len(arg.cells[k]) = Len(result.headers) - 1

\* C20: between sheet loads no event changes rows_all: a filter change, a
\* filter clear and a sort leave its content and its order
C20_RowsAllImmutable ==
    [][last_op' # "load" => rows_all' = rows_all]_vars

\* a sort has put the unfiltered view in another order than rows_all
C20_Witness ==
    /\ last_op \in SortOps
    /\ filter_var = <<>>
    /\ Len(rows_view) = Len(rows_all)
    /\ rows_view # rows_all

\* the events that end in _render_table
RenderOps == RerenderOps \cup {"load"}

\* C21: right after a sheet load, a filter change, a filter clear or a sort
\* of a non-empty view no row is selected and the overlay is hidden, and a
\* search or copy invoked then opens no URL and leaves the clipboard alone,
\* whether or not the row selected before is still in rows_view
C21_RerenderDropsSelection ==
    [][/\ last_op' \in RenderOps
          => /\ tree_sel' = 0
             /\ ~hl_visible'
       /\ (last_op \in RenderOps /\ last_op' \in SearchCopyOps)
          => UNCHANGED <<browser, clipboard, tree_sel>>]_vars

\* a copy was invoked right after a filter change that kept the row searched
\* and copied before: nothing is selected, the clipboard and the last URL are
\* those of the earlier copy and search
C21_Witness ==
    /\ last_op = "copy_cell"
    /\ tree_sel = 0
    /\ rc_col_index # NoCol
    /\ filter_var # <<>>
    /\ clipboard # NoText
    /\ browser # NoUrl
    /\ \E i \in 1..Len(rows_view) : clipboard \in {rows_view[i][j] : j \in 1..Len(rows_view[i])}

====
